---- MODULE Spec2Model ----
(***************************************************************************)
(* magic-shell: the command-risk classifier (src/src/lib/safety.ts), the   *)
(* one-shot command line (translate) and the two interactive sessions      *)
(* (src/src/cli.ts and the chat TUI) that gate execution on its verdict.   *)
(* Commands are strings; the rule tables are the regular expressions of    *)
(* safety.ts, interpreted by a small matcher.                              *)
(***************************************************************************)
EXTENDS Integers, Sequences, FiniteSets, TLC

(***************************************************************************)
(* Strings: the JavaScript string operations the classifier uses.          *)
(***************************************************************************)
UpperCaseLetters == "ABCDEFGHIJKLMNOPQRSTUVWXYZ"
LowerCaseLetters == "abcdefghijklmnopqrstuvwxyz"
WhiteSpace == {" ", "\t", "\n", "\r", "\f"}
LineTerminators == {"\n", "\r"}

CharAt(s, i) == SubSeq(s, i, i)

\* String.prototype.toLowerCase, one character
lowerChar(c) ==
  IF \E i \in 1..26 : CharAt(UpperCaseLetters, i) = c
  THEN CharAt(LowerCaseLetters, CHOOSE i \in 1..26 : CharAt(UpperCaseLetters, i) = c)
  ELSE c

RECURSIVE toLowerCase(_)
toLowerCase(s) ==
  IF Len(s) = 0 THEN ""
  ELSE lowerChar(CharAt(s, 1)) \o toLowerCase(SubSeq(s, 2, Len(s)))

\* String.prototype.trim
RECURSIVE trimStart(_)
trimStart(s) ==
  IF Len(s) > 0 /\ CharAt(s, 1) \in WhiteSpace
  THEN trimStart(SubSeq(s, 2, Len(s)))
  ELSE s

RECURSIVE trimEnd(_)
trimEnd(s) ==
  IF Len(s) > 0 /\ CharAt(s, Len(s)) \in WhiteSpace
  THEN trimEnd(SubSeq(s, 1, Len(s) - 1))
  ELSE s

trim(s) == trimEnd(trimStart(s))

\* String.prototype.startsWith
startsWith(s, p) == Len(p) <= Len(s) /\ SubSeq(s, 1, Len(p)) = p

\* String.prototype.includes
includes(s, p) ==
  \/ Len(p) = 0
  \/ \E i \in 1..(Len(s) - Len(p) + 1) : SubSeq(s, i, i + Len(p) - 1) = p

(***************************************************************************)
(* Regular expressions (no flags): a term is a record; Ends(r, s, i) is    *)
(* the set of positions where a match of r that starts at i can end.       *)
(***************************************************************************)
Lit(str) == [k |-> "lit", s |-> str, cs |-> {}, sub |-> <<>>]
Cls(set) == [k |-> "cls", s |-> "", cs |-> set, sub |-> <<>>]
AnyChar  == [k |-> "any", s |-> "", cs |-> {}, sub |-> <<>>]
EndOfInput == [k |-> "eol", s |-> "", cs |-> {}, sub |-> <<>>]
Cat(seq) == [k |-> "cat", s |-> "", cs |-> {}, sub |-> seq]
Alt(seq) == [k |-> "alt", s |-> "", cs |-> {}, sub |-> seq]
Opt(r)   == [k |-> "opt", s |-> "", cs |-> {}, sub |-> <<r>>]
Star(r)  == [k |-> "star", s |-> "", cs |-> {}, sub |-> <<r>>]
Plus(r)  == [k |-> "plus", s |-> "", cs |-> {}, sub |-> <<r>>]

Space == Cls(WhiteSpace)                      \* \s
Spaces == Plus(Space)                         \* \s+
OptSpaces == Star(Space)                      \* \s*
AnyRun == Star(AnyChar)                       \* .*
LowerLetter == Cls({CharAt(LowerCaseLetters, i) : i \in 1..26})  \* [a-z]

RECURSIVE Ends(_, _, _), CatEnds(_, _, _, _), StarEnds(_, _, _, _)
Ends(r, s, i) ==
  CASE r.k = "lit" ->
         IF i + Len(r.s) - 1 <= Len(s) /\ SubSeq(s, i, i + Len(r.s) - 1) = r.s
         THEN {i + Len(r.s)} ELSE {}
    [] r.k = "cls" ->
         IF i <= Len(s) /\ CharAt(s, i) \in r.cs THEN {i + 1} ELSE {}
    [] r.k = "any" ->
         IF i <= Len(s) /\ CharAt(s, i) \notin LineTerminators THEN {i + 1} ELSE {}
    [] r.k = "eol" -> IF i = Len(s) + 1 THEN {i} ELSE {}
    [] r.k = "cat" -> CatEnds(r.sub, 1, s, {i})
    [] r.k = "alt" -> UNION {Ends(r.sub[n], s, i) : n \in 1..Len(r.sub)}
    [] r.k = "opt" -> {i} \cup Ends(r.sub[1], s, i)
    [] r.k = "star" -> StarEnds(r.sub[1], s, {i}, {i})
    [] r.k = "plus" ->
         LET first == Ends(r.sub[1], s, i)
         IN  StarEnds(r.sub[1], s, first, first)

CatEnds(sub, n, s, from) ==
  IF n > Len(sub) \/ from = {} THEN from
  ELSE CatEnds(sub, n + 1, s, UNION {Ends(sub[n], s, i) : i \in from})

StarEnds(r, s, frontier, seen) ==
  LET more == (UNION {Ends(r, s, i) : i \in frontier}) \ seen
  IN  IF more = {} THEN seen ELSE StarEnds(r, s, more, seen \cup more)

\* RegExp.prototype.test: a match may start anywhere
test(r, s) == \E i \in 1..(Len(s) + 1) : Ends(r, s, i) # {}

Rule(src, re) == [source |-> src, re |-> re]

(***************************************************************************)
(* The rule tables of safety.ts.                                           *)
(***************************************************************************)
RfFlags == Plus(Cls({"r", "f"}))              \* [rf]+

CRITICAL_PATTERNS == <<
  Rule("rm\\s+(-[rf]+\\s+)*[\\/~](\\s|$)",
       Cat(<<Lit("rm"), Spaces, Star(Cat(<<Lit("-"), RfFlags, Spaces>>)),
             Cls({"/", "~"}), Alt(<<Space, EndOfInput>>)>>)),
  Rule("rm\\s+(-[rf]+\\s+)*\\/\\*",
       Cat(<<Lit("rm"), Spaces, Star(Cat(<<Lit("-"), RfFlags, Spaces>>)), Lit("/*")>>)),
  Rule("rm\\s+-[rf]*\\s+--no-preserve-root",
       Cat(<<Lit("rm"), Spaces, Lit("-"), Star(Cls({"r", "f"})), Spaces,
             Lit("--no-preserve-root")>>)),
  Rule(">\\s*\\/dev\\/sd[a-z]",
       Cat(<<Lit(">"), OptSpaces, Lit("/dev/sd"), LowerLetter>>)),
  Rule("dd\\s+.*of=\\/dev\\/sd[a-z]",
       Cat(<<Lit("dd"), Spaces, AnyRun, Lit("of=/dev/sd"), LowerLetter>>)),
  Rule("mkfs\\.", Lit("mkfs.")),
  Rule(":\\(\\)\\s*\\{.*\\}",
       Cat(<<Lit(":()"), OptSpaces, Lit("{"), AnyRun, Lit("}")>>)),
  Rule("chmod\\s+(-R\\s+)?777\\s+\\/",
       Cat(<<Lit("chmod"), Spaces, Opt(Cat(<<Lit("-R"), Spaces>>)), Lit("777"),
             Spaces, Lit("/")>>)),
  Rule("wget.*\\|\\s*(ba)?sh",
       Cat(<<Lit("wget"), AnyRun, Lit("|"), OptSpaces, Opt(Lit("ba")), Lit("sh")>>)),
  Rule("curl.*\\|\\s*(ba)?sh",
       Cat(<<Lit("curl"), AnyRun, Lit("|"), OptSpaces, Opt(Lit("ba")), Lit("sh")>>)) >>

HIGH_PATTERNS == <<
  Rule("rm\\s+-[rf]+", Cat(<<Lit("rm"), Spaces, Lit("-"), RfFlags>>)),
  Rule("sudo\\s+rm", Cat(<<Lit("sudo"), Spaces, Lit("rm")>>)),
  Rule(">\\s*\\/etc\\/", Cat(<<Lit(">"), OptSpaces, Lit("/etc/")>>)),
  Rule("chmod\\s+-R", Cat(<<Lit("chmod"), Spaces, Lit("-R")>>)),
  Rule("chown\\s+-R", Cat(<<Lit("chown"), Spaces, Lit("-R")>>)),
  Rule("kill\\s+-9\\s+-1", Cat(<<Lit("kill"), Spaces, Lit("-9"), Spaces, Lit("-1")>>)),
  Rule("killall", Lit("killall")),
  Rule("pkill", Lit("pkill")),
  Rule("shutdown", Lit("shutdown")),
  Rule("reboot", Lit("reboot")),
  Rule("systemctl\\s+(stop|disable)",
       Cat(<<Lit("systemctl"), Spaces, Alt(<<Lit("stop"), Lit("disable")>>)>>)),
  Rule("service\\s+.*\\s+stop",
       Cat(<<Lit("service"), Spaces, AnyRun, Spaces, Lit("stop")>>)) >>

MEDIUM_PATTERNS == <<
  Rule("sudo\\s+", Cat(<<Lit("sudo"), Spaces>>)),
  Rule("rm\\s+", Cat(<<Lit("rm"), Spaces>>)),
  Rule("mv\\s+.*\\/", Cat(<<Lit("mv"), Spaces, AnyRun, Lit("/")>>)),
  Rule("cp\\s+-[rf]", Cat(<<Lit("cp"), Spaces, Lit("-"), Cls({"r", "f"})>>)),
  Rule("chmod\\s+", Cat(<<Lit("chmod"), Spaces>>)),
  Rule("chown\\s+", Cat(<<Lit("chown"), Spaces>>)),
  Rule("apt\\s+(remove|purge)",
       Cat(<<Lit("apt"), Spaces, Alt(<<Lit("remove"), Lit("purge")>>)>>)),
  Rule("brew\\s+uninstall", Cat(<<Lit("brew"), Spaces, Lit("uninstall")>>)),
  Rule("npm\\s+uninstall\\s+-g",
       Cat(<<Lit("npm"), Spaces, Lit("uninstall"), Spaces, Lit("-g")>>)),
  Rule("pip\\s+uninstall", Cat(<<Lit("pip"), Spaces, Lit("uninstall")>>)),
  Rule("git\\s+push\\s+.*--force",
       Cat(<<Lit("git"), Spaces, Lit("push"), Spaces, AnyRun, Lit("--force")>>)),
  Rule("git\\s+reset\\s+--hard",
       Cat(<<Lit("git"), Spaces, Lit("reset"), Spaces, Lit("--hard")>>)),
  Rule("docker\\s+rm", Cat(<<Lit("docker"), Spaces, Lit("rm")>>)),
  Rule("docker\\s+system\\s+prune",
       Cat(<<Lit("docker"), Spaces, Lit("system"), Spaces, Lit("prune")>>)) >>

LOW_PATTERNS == <<
  Rule("git\\s+checkout", Cat(<<Lit("git"), Spaces, Lit("checkout")>>)),
  Rule("git\\s+stash", Cat(<<Lit("git"), Spaces, Lit("stash")>>)),
  Rule("npm\\s+install", Cat(<<Lit("npm"), Spaces, Lit("install")>>)),
  Rule("pip\\s+install", Cat(<<Lit("pip"), Spaces, Lit("install")>>)),
  Rule("brew\\s+install", Cat(<<Lit("brew"), Spaces, Lit("install")>>)),
  Rule("apt\\s+install", Cat(<<Lit("apt"), Spaces, Lit("install")>>)) >>

(***************************************************************************)
(* analyzeCommand (safety.ts).  A Config is a record with the three policy *)
(* fields safetyLevel, blockedCommands, confirmedDangerousPatterns.        *)
(***************************************************************************)
undefined == "undefined"

MinOf(S) == CHOOSE x \in S : \A y \in S : x <= y

\* the rules of one table that match, as their pattern.source, in table order
matchedSources(rules, s) ==
  LET hit == SelectSeq(rules, LAMBDA r : test(r.re, s))
  IN  [i \in 1..Len(hit) |-> hit[i].source]

\* a faulty blocked check that compares the entry as written, case and all
blockedHitsCaseSensitive(normalizedCommand, cfg) ==
  {i \in 1..Len(cfg.blockedCommands) :
     includes(normalizedCommand, cfg.blockedCommands[i])}

\* safety.ts 65-74: the first blocked entry the normalized command contains
blockedHits(normalizedCommand, cfg) ==
  {i \in 1..Len(cfg.blockedCommands) :
     includes(normalizedCommand, toLowerCase(cfg.blockedCommands[i]))}

\* a faulty gate whose strict level only flags critical commands
levelGateLaxStrict(safetyLevel, highestSeverity, matchedPatterns) ==
  IF safetyLevel = "moderate"
  THEN highestSeverity = "critical" \/ highestSeverity = "high"
  ELSE highestSeverity = "critical"

\* a faulty gate whose strict level flags every command
levelGateStrictAll(safetyLevel, highestSeverity, matchedPatterns) ==
  IF safetyLevel = "strict" THEN TRUE
  ELSE IF safetyLevel = "moderate"
       THEN highestSeverity = "critical" \/ highestSeverity = "high"
       ELSE highestSeverity = "critical"

\* a faulty gate whose moderate level lets high commands through
levelGateModerateLax(safetyLevel, highestSeverity, matchedPatterns) ==
  IF safetyLevel = "strict" THEN Len(matchedPatterns) > 0
  ELSE highestSeverity = "critical"

\* safety.ts 116-125: the safety-level gate
levelGate(safetyLevel, highestSeverity, matchedPatterns) ==
  IF safetyLevel = "strict" THEN Len(matchedPatterns) > 0
  ELSE IF safetyLevel = "moderate"
       THEN highestSeverity = "critical" \/ highestSeverity = "high"
       ELSE highestSeverity = "critical"

\* a faulty confirmed check that compares the pattern as written, case and all
wasConfirmedCaseSensitive(normalizedCommand, cfg) ==
  \E i \in 1..Len(cfg.confirmedDangerousPatterns) :
     includes(normalizedCommand, cfg.confirmedDangerousPatterns[i])

\* safety.ts 128-130
wasConfirmed(normalizedCommand, cfg) ==
  \E i \in 1..Len(cfg.confirmedDangerousPatterns) :
     includes(normalizedCommand, toLowerCase(cfg.confirmedDangerousPatterns[i]))

\* a faulty override that forgets the exception for critical severity
applyOverrideAlways(isDangerous, confirmed, highestSeverity) ==
  IF confirmed THEN FALSE ELSE isDangerous

\* safety.ts 132-134: a confirmed pattern clears the flag unless critical
applyOverride(isDangerous, confirmed, highestSeverity) ==
  IF confirmed /\ highestSeverity # "critical" THEN FALSE ELSE isDangerous

getSeverityMessage(severity) ==
  CASE severity = "critical" ->
         "This command could cause irreversible damage to your system!"
    [] severity = "high" ->
         "This command may cause significant changes or data loss."
    [] severity = "medium" ->
         "This command requires elevated privileges or modifies system state."
    [] severity = "low" -> "This command may make changes worth reviewing."

\* a faulty scan whose medium tier overwrites the severity found so far
scanTiersMediumWins(normalizedCommand) ==
  LET crit == matchedSources(CRITICAL_PATTERNS, normalizedCommand)
      high == IF Len(crit) = 0
              THEN matchedSources(HIGH_PATTERNS, normalizedCommand) ELSE <<>>
      med  == matchedSources(MEDIUM_PATTERNS, normalizedCommand)
      upTo == crit \o high \o med
      low  == IF Len(upTo) = 0
              THEN matchedSources(LOW_PATTERNS, normalizedCommand) ELSE <<>>
  IN  [highestSeverity |-> IF Len(med) > 0 THEN "medium"
                           ELSE IF Len(crit) > 0 THEN "critical"
                           ELSE IF Len(high) > 0 THEN "high" ELSE "low",
       matchedPatterns |-> upTo \o low]

\* a faulty scan that reports the low tier whatever else matched
scanTiersLowAlways(normalizedCommand) ==
  LET crit == matchedSources(CRITICAL_PATTERNS, normalizedCommand)
      sev1 == IF Len(crit) > 0 THEN "critical" ELSE "low"
      high == IF sev1 # "critical"
              THEN matchedSources(HIGH_PATTERNS, normalizedCommand) ELSE <<>>
      sev2 == IF Len(high) > 0 THEN "high" ELSE sev1
      med  == matchedSources(MEDIUM_PATTERNS, normalizedCommand)
      sev3 == IF Len(med) > 0 /\ sev2 = "low" THEN "medium" ELSE sev2
      low  == matchedSources(LOW_PATTERNS, normalizedCommand)
  IN  [highestSeverity |-> sev3, matchedPatterns |-> crit \o high \o med \o low]

\* a faulty scan that evaluates the high tier whatever the critical tier found
scanTiersHighAlways(normalizedCommand) ==
  LET crit == matchedSources(CRITICAL_PATTERNS, normalizedCommand)
      sev1 == IF Len(crit) > 0 THEN "critical" ELSE "low"
      high == matchedSources(HIGH_PATTERNS, normalizedCommand)
      sev2 == IF Len(high) > 0 /\ sev1 # "critical" THEN "high" ELSE sev1
      med  == matchedSources(MEDIUM_PATTERNS, normalizedCommand)
      sev3 == IF Len(med) > 0 /\ sev2 = "low" THEN "medium" ELSE sev2
      upTo == crit \o high \o med
      low  == IF Len(upTo) = 0
              THEN matchedSources(LOW_PATTERNS, normalizedCommand) ELSE <<>>
  IN  [highestSeverity |-> sev3, matchedPatterns |-> upTo \o low]

\* safety.ts 76-114: the tiers in order; high only when nothing critical
\* matched, medium always, low only when nothing else matched
scanTiers(normalizedCommand) ==
  LET crit == matchedSources(CRITICAL_PATTERNS, normalizedCommand)
      sev1 == IF Len(crit) > 0 THEN "critical" ELSE "low"
      high == IF sev1 # "critical"
              THEN matchedSources(HIGH_PATTERNS, normalizedCommand) ELSE <<>>
      sev2 == IF Len(high) > 0 THEN "high" ELSE sev1
      med  == matchedSources(MEDIUM_PATTERNS, normalizedCommand)
      sev3 == IF Len(med) > 0 /\ sev2 = "low" THEN "medium" ELSE sev2
      upTo == crit \o high \o med
      low  == IF Len(upTo) = 0
              THEN matchedSources(LOW_PATTERNS, normalizedCommand) ELSE <<>>
  IN  [highestSeverity |-> sev3, matchedPatterns |-> upTo \o low]

analyzeCommand(cmd, cfg) ==
  LET normalizedCommand == trim(toLowerCase(cmd))
      hits == blockedHits(normalizedCommand, cfg)
  IN  IF hits # {}
      THEN LET blocked == cfg.blockedCommands[MinOf(hits)]
           IN  [isDangerous |-> TRUE,
                severity |-> "critical",
                reason |-> "Command contains blocked pattern: " \o blocked,
                patterns |-> <<blocked>>]
      ELSE LET scan == scanTiers(normalizedCommand)
               isDangerous ==
                 applyOverride(
                   levelGate(cfg.safetyLevel, scan.highestSeverity, scan.matchedPatterns),
                   wasConfirmed(normalizedCommand, cfg),
                   scan.highestSeverity)
           IN  [isDangerous |-> isDangerous,
                severity |-> IF Len(scan.matchedPatterns) > 0
                             THEN scan.highestSeverity ELSE "low",
                reason |-> IF isDangerous
                           THEN getSeverityMessage(scan.highestSeverity)
                           ELSE undefined,
                patterns |-> scan.matchedPatterns]

(***************************************************************************)
(* State.                                                                  *)
(***************************************************************************)
VARIABLES
  \* the classifier's call, and the one-shot command line (translate)
  command,              \* the command string under classification
  config,               \* Config: safetyLevel, blockedCommands, confirmedDangerousPatterns
  safety,               \* the SafetyAnalysis returned (noVerdict before the call)
  args,                 \* process arguments of the one-shot command line
  cliPc,                \* position of the one-shot process
  exitCode,             \* its exit status (NoExit while it runs)
  \* the Execution Adapter
  adapterCalls,         \* every command handed to spawn, in order
  running,              \* child processes that have not closed yet
  \* the interactive session
  ui,                   \* "cli" (src/src/cli.ts) or "chat" (the chat TUI)
  dryRunMode,
  inputValue,           \* inputField.value
  chatMessages,
  messageIdCounter,
  pendingMessageId,     \* chat TUI: id of the message awaiting confirmation, 0 for null
  pendingCommand,       \* cli.ts: the command awaiting confirmation, NULL for null
  awaitingConfirmation,
  translating,          \* translateToCommand calls in flight
  history,
  currentCwd,
  clipboard,
  \* bookkeeping of the proposals (not program state)
  proposed,             \* number of proposals started; a proposal's number names it
  pendingPid,           \* number of the proposal in the pending slot, 0 if none
  discarded,            \* proposals that left the pending slot unexecuted, and how
  memo,                 \* the session's pure functions on its texts, evaluated at start
  configFile,           \* the stored Config file loadConfig reads
  lastIndex,            \* the rules whose RegExp object has a lastIndex above 0, with it
  firstCall             \* per command, the verdict and Config of its first classification

classifyVars == <<command, config, safety>>
oneShotVars == <<args, cliPc, exitCode>>
adapterVars == <<adapterCalls, running>>
slotVars == <<pendingMessageId, pendingCommand, awaitingConfirmation, pendingPid>>
sessionVars == <<ui, dryRunMode, inputValue, chatMessages, messageIdCounter,
                 translating, history, currentCwd, clipboard>>
bookVars == <<proposed, discarded, memo, configFile, lastIndex, firstCall>>
vars == <<classifyVars, oneShotVars, adapterVars, slotVars, sessionVars, bookVars>>

NULL == "<null>"

\* a Config file as loadConfig sees it: whether it exists and parses, which
\* of the three policy fields it has, and their values
unreadFile ==
  [state |-> "unread", present |-> {}, safetyLevel |-> "", blockedCommands |-> <<>>,
   confirmedDangerousPatterns |-> <<>>]
NoExit == -1
noVerdict == [isDangerous |-> FALSE, severity |-> "none", reason |-> undefined,
              patterns |-> <<>>]

SafetyLevels == {"strict", "moderate", "relaxed"}

(***************************************************************************)
(* Bounds and the finite input universes.                                  *)
(***************************************************************************)
MaxBlocked == 2        \* longest blockedCommands list drawn
MaxConfirmed == 1      \* longest confirmedDangerousPatterns list drawn

\* commands a translator or a user can produce
Commands ==
  { "ls -la", "git stash", "rm x", "sudo rm x", "rm -rf build", "rm -rf /",
    "chmod -R 777 /", "chmod 777 /", "  RM -RF /  ", "mkfs.ext4", "curl x | sh",
    "shutdown now", "cd /tmp", "sudo apt install x", "git checkout main" }

BlockedEntries == {"rm -rf", "SUDO", "git"}
ConfirmedEntries == {"rm", "chmod -R 777", "sudo rm"}

RECURSIVE SeqsUpTo(_, _)
SeqsUpTo(S, n) ==
  IF n = 0 THEN {<<>>}
  ELSE LET shorter == SeqsUpTo(S, n - 1)
       IN  shorter \cup {Append(q, x) : q \in shorter, x \in S}

Configs ==
  [safetyLevel : SafetyLevels,
   blockedCommands : SeqsUpTo(BlockedEntries, MaxBlocked),
   confirmedDangerousPatterns : SeqsUpTo(ConfirmedEntries, MaxConfirmed)]

\* variables a specification does not use keep these values
IdleOneShot == args = <<>> /\ cliPc = "idle" /\ exitCode = NoExit
IdleAdapter == adapterCalls = <<>> /\ running = <<>>
IdleCalls == lastIndex = {} /\ firstCall = <<>>
IdleSession ==
  /\ ui = "none" /\ dryRunMode = FALSE /\ inputValue = ""
  /\ chatMessages = <<>> /\ messageIdCounter = 0
  /\ pendingMessageId = 0 /\ pendingCommand = NULL /\ awaitingConfirmation = FALSE
  /\ translating = <<>> /\ history = <<>> /\ currentCwd = "/home" /\ clipboard = ""
  /\ proposed = 0 /\ pendingPid = 0 /\ discarded = {} /\ memo = <<>>

(***************************************************************************)
(* SpecClassify: one call of analyzeCommand on drawn inputs.               *)
(***************************************************************************)
InitClassify ==
  /\ command \in Commands
  /\ config \in Configs
  /\ safety = noVerdict
  /\ IdleOneShot /\ IdleAdapter /\ IdleSession
  /\ configFile = unreadFile /\ IdleCalls

Classify ==
  /\ safety = noVerdict
  /\ safety' = analyzeCommand(command, config)
  /\ UNCHANGED <<command, config, oneShotVars, adapterVars, slotVars, sessionVars, bookVars>>

NextClassify == Classify

SpecClassify == InitClassify /\ [][NextClassify]_vars

(***************************************************************************)
(* SpecLoad: loadConfig (update-checker.ts) reads the stored Config file   *)
(* and analyzeCommand classifies under the Config it returns.              *)
(***************************************************************************)
ConfigFields == {"safetyLevel", "blockedCommands", "confirmedDangerousPatterns"}

DEFAULT_CONFIG ==
  [safetyLevel |-> "moderate",
   blockedCommands |-> << ":(){ :|:& };:", "> /dev/sda", "mkfs", "dd if=/dev/zero",
                          "chmod -R 777 /", "chown -R" >>,
   confirmedDangerousPatterns |-> <<>>]

\* the files drawn: none, one that does not parse, and parsed objects with
\* any of the fields missing and a safetyLevel that may be no level at all
ConfigFiles ==
  { [unreadFile EXCEPT !.state = "missing"], [unreadFile EXCEPT !.state = "unparsable"] }
  \cup
  { [state |-> "parsed", present |-> ps,
     safetyLevel |-> IF "safetyLevel" \in ps THEN lv ELSE "",
     blockedCommands |-> IF "blockedCommands" \in ps THEN bl ELSE <<>>,
     confirmedDangerousPatterns |-> IF "confirmedDangerousPatterns" \in ps THEN cf ELSE <<>>] :
       ps \in SUBSET ConfigFields, lv \in SafetyLevels \cup {"paranoid"},
       bl \in {<<>>, <<"git">>}, cf \in {<<>>, <<"rm">>} }

\* loadConfig: DEFAULT_CONFIG without a file or when JSON.parse throws,
\* otherwise {...DEFAULT_CONFIG, ...loaded}
loadConfig(file) ==
  IF file.state # "parsed" THEN DEFAULT_CONFIG
  ELSE [f \in ConfigFields |-> IF f \in file.present THEN file[f] ELSE DEFAULT_CONFIG[f]]

notLoaded ==
  [safetyLevel |-> "", blockedCommands |-> <<>>, confirmedDangerousPatterns |-> <<>>]

InitLoad ==
  /\ command \in Commands
  /\ config = notLoaded
  /\ safety = noVerdict
  /\ configFile \in ConfigFiles
  /\ IdleOneShot /\ IdleAdapter /\ IdleSession /\ IdleCalls

LoadConfig ==
  /\ config = notLoaded
  /\ config' = loadConfig(configFile)
  /\ UNCHANGED <<command, safety, oneShotVars, adapterVars, slotVars, sessionVars, bookVars>>

ClassifyLoaded ==
  /\ config # notLoaded
  /\ Classify

NextLoad == LoadConfig \/ ClassifyLoaded

SpecLoad == InitLoad /\ [][NextLoad]_vars

(***************************************************************************)
(* SpecCalls: analyzeCommand called again and again in one process.  The   *)
(* rule tables are module-level RegExp objects that live across the calls; *)
(* RegExp.prototype.test reads and writes a pattern's lastIndex when the   *)
(* pattern has the g or y flag, and leaves it alone otherwise.             *)
(***************************************************************************)
MaxOf(S) == CHOOSE x \in S : \A y \in S : x >= y

\* a pattern literal with the g flag, as none of safety.ts is
globalFlag == "g"

\* the flags of the pattern literals of safety.ts: there are none
RuleFlags == ""

lastIndexOf(li, src) ==
  IF \E p \in li : p.source = src THEN (CHOOSE p \in li : p.source = src).index ELSE 0

\* pattern.test(s) on a RegExp object whose lastIndex is at: the result, and
\* the lastIndex it leaves.  With g or y the search starts at lastIndex and
\* lastIndex becomes the end of the match, or 0 when there is none.
testAt(rule, s, at) ==
  IF ~(includes(RuleFlags, "g") \/ includes(RuleFlags, "y"))
  THEN [found |-> test(rule.re, s), index |-> at]
  ELSE LET starts == {i \in (at + 1)..(Len(s) + 1) : Ends(rule.re, s, i) # {}}
       IN  IF starts = {} THEN [found |-> FALSE, index |-> 0]
           ELSE [found |-> TRUE, index |-> MaxOf(Ends(rule.re, s, MinOf(starts))) - 1]

sourcesOf(hit) == [i \in 1..Len(hit) |-> hit[i].source]

\* the outcome of one tier's loop, given each rule's test result: the sources
\* that matched, in table order, and the lastIndex values afterwards
tierOutcome(rules, res, li) ==
  [sources |-> sourcesOf(SelectSeq([i \in 1..Len(rules) |->
                                      [source |-> rules[i].source, found |-> res[i].found]],
                                   LAMBDA x : x.found)),
   li |-> {p \in li : \A i \in 1..Len(rules) : p.source # rules[i].source}
          \cup {[source |-> rules[i].source, index |-> res[i].index] :
                  i \in {k \in 1..Len(rules) : res[k].index > 0}}]

\* one tier's loop over its rules
scanTierAt(rules, s, li) ==
  tierOutcome(rules,
              [i \in 1..Len(rules) |-> testAt(rules[i], s, lastIndexOf(li, rules[i].source))],
              li)

\* safety.ts 80-114, one of the four loops: acc is matchedPatterns,
\* highestSeverity and the RegExp state so far, r the loop's outcome
afterTier(tier, acc, r) ==
  [matchedPatterns |-> acc.matchedPatterns \o r.sources,
   highestSeverity |->
     IF Len(r.sources) = 0 \/ tier = "low" THEN acc.highestSeverity
     ELSE IF tier = "medium"
          THEN (IF acc.highestSeverity = "low" THEN "medium" ELSE acc.highestSeverity)
          ELSE tier,
   li |-> r.li]

tierRuns(tier, acc) ==
  CASE tier = "critical" -> TRUE
    [] tier = "high" -> acc.highestSeverity # "critical"
    [] tier = "medium" -> TRUE
    [] tier = "low" -> Len(acc.matchedPatterns) = 0

tierRules(tier) ==
  CASE tier = "critical" -> CRITICAL_PATTERNS
    [] tier = "high" -> HIGH_PATTERNS
    [] tier = "medium" -> MEDIUM_PATTERNS
    [] tier = "low" -> LOW_PATTERNS

scanTier(tier, s, acc) ==
  IF tierRuns(tier, acc)
  THEN afterTier(tier, acc, scanTierAt(tierRules(tier), s, acc.li))
  ELSE acc

\* safety.ts 116-141 on the outcome of the four loops
verdictOf(cfg, normalizedCommand, acc, isDangerous) ==
  [verdict |->
     [isDangerous |-> isDangerous,
      severity |-> IF Len(acc.matchedPatterns) > 0 THEN acc.highestSeverity ELSE "low",
      reason |-> IF isDangerous THEN getSeverityMessage(acc.highestSeverity) ELSE undefined,
      patterns |-> acc.matchedPatterns],
   lastIndex |-> acc.li]

gated(cfg, normalizedCommand, acc) ==
  verdictOf(cfg, normalizedCommand, acc,
            applyOverride(levelGate(cfg.safetyLevel, acc.highestSeverity, acc.matchedPatterns),
                          wasConfirmed(normalizedCommand, cfg), acc.highestSeverity))

blockedVerdict(blocked, li) ==
  [verdict |-> [isDangerous |-> TRUE, severity |-> "critical",
                reason |-> "Command contains blocked pattern: " \o blocked,
                patterns |-> <<blocked>>],
   lastIndex |-> li]

analyzeNormalized(normalizedCommand, cfg, li, hits) ==
  IF hits # {}
  THEN blockedVerdict(cfg.blockedCommands[MinOf(hits)], li)
  ELSE gated(cfg, normalizedCommand,
         scanTier("low", normalizedCommand,
           scanTier("medium", normalizedCommand,
             scanTier("high", normalizedCommand,
               scanTier("critical", normalizedCommand,
                 [matchedPatterns |-> <<>>, highestSeverity |-> "low", li |-> li])))))

\* a call of analyzeCommand with the RegExp objects in state li: the verdict
\* and the state it leaves
analyzeCall(cmd, cfg, li) ==
  analyzeNormalized(trim(toLowerCase(cmd)), cfg, li,
                    blockedHits(trim(toLowerCase(cmd)), cfg))

CallCommands == {"rm -rf /", "sudo rm x", "git stash", "ls -la"}
CallConfigs ==
  [safetyLevel : SafetyLevels,
   blockedCommands : {<<>>, <<"git">>},
   confirmedDangerousPatterns : {<<>>, <<"rm">>}]

\* firstCall[c].repeated: c was classified, then another command, then c again
notCalled == [verdict |-> noVerdict, config |-> notLoaded, repeated |-> FALSE]

InitCalls ==
  /\ command = NULL
  /\ config \in CallConfigs
  /\ safety = noVerdict
  /\ lastIndex = {}
  /\ firstCall = [c \in CallCommands |-> notCalled]
  /\ configFile = unreadFile
  /\ IdleOneShot /\ IdleAdapter /\ IdleSession

\* some caller classifies cmd
Call(cmd) ==
  LET r == analyzeCall(cmd, config, lastIndex)
  IN  /\ command' = cmd
      /\ safety' = r.verdict
      /\ lastIndex' = r.lastIndex
      /\ firstCall' = IF firstCall[cmd] = notCalled
                      THEN [firstCall EXCEPT ![cmd] = [verdict |-> r.verdict, config |-> config,
                                                       repeated |-> FALSE]]
                      ELSE [firstCall EXCEPT ![cmd].repeated = @ \/ command # cmd]
      /\ UNCHANGED <<config, oneShotVars, adapterVars, slotVars, sessionVars,
                     proposed, discarded, memo, configFile>>

NextCalls == \E cmd \in CallCommands : Call(cmd)

SpecCalls == InitCalls /\ [][NextCalls]_vars

(***************************************************************************)
(* SpecCLI: the one-shot command line, main's flag parsing and translate.  *)
(***************************************************************************)
\* the configurations a one-shot run is started with
OneShotConfigs ==
  [safetyLevel : SafetyLevels,
   blockedCommands : {<<>>, <<"rm -rf">>},
   confirmedDangerousPatterns : {<<>>, <<"sudo rm">>}]

ArgLists ==
  { <<"q">>, <<"-x", "q">>, <<"-n", "q">>, <<"--execute", "q">>, <<"--dry-run", "q">>,
    <<"-x", "-n", "q">>, <<"-n", "q", "-x">>, <<"-x">> }

\* exit codes a child can close with; NullCode: closed by a signal (code null)
NullCode == -2
ChildCodes == {0, 1, 2, NullCode}

\* a faulty flag loop that knows --dry-run but not its short form -n
RECURSIVE parseArgsLongOnly(_, _, _)
parseArgsLongOnly(a, i, acc) ==
  IF i > Len(a) THEN acc
  ELSE LET arg == a[i]
       IN  parseArgsLongOnly(a, i + 1,
             IF arg = "-x" \/ arg = "--execute" THEN [acc EXCEPT !.execute = TRUE]
             ELSE IF arg = "--dry-run" THEN [acc EXCEPT !.dryRun = TRUE]
             ELSE IF ~startsWith(arg, "-")
                  THEN [acc EXCEPT !.queryParts = Append(@, arg)]
                  ELSE acc)

\* a faulty flag loop in which the later of -x and -n cancels the earlier
RECURSIVE parseArgsLastFlagWins(_, _, _)
parseArgsLastFlagWins(a, i, acc) ==
  IF i > Len(a) THEN acc
  ELSE LET arg == a[i]
       IN  parseArgsLastFlagWins(a, i + 1,
             IF arg = "-x" \/ arg = "--execute"
             THEN [acc EXCEPT !.execute = TRUE, !.dryRun = FALSE]
             ELSE IF arg = "-n" \/ arg = "--dry-run"
             THEN [acc EXCEPT !.dryRun = TRUE, !.execute = FALSE]
             ELSE IF ~startsWith(arg, "-")
                  THEN [acc EXCEPT !.queryParts = Append(@, arg)]
                  ELSE acc)

\* main: the flag loop
RECURSIVE parseArgs(_, _, _)
parseArgs(a, i, acc) ==
  IF i > Len(a) THEN acc
  ELSE LET arg == a[i]
       IN  parseArgs(a, i + 1,
             IF arg = "-x" \/ arg = "--execute" THEN [acc EXCEPT !.execute = TRUE]
             ELSE IF arg = "-n" \/ arg = "--dry-run" THEN [acc EXCEPT !.dryRun = TRUE]
             ELSE IF ~startsWith(arg, "-")
                  THEN [acc EXCEPT !.queryParts = Append(@, arg)]
                  ELSE acc)

options == parseArgs(args, 1, [execute |-> FALSE, dryRun |-> FALSE, queryParts |-> <<>>])

\* a faulty refusal test that refuses every dangerous verdict, low ones too
refusesEveryDanger(verdict) == verdict.isDangerous

\* translate's refusal test in execute mode
refuses(verdict) == verdict.isDangerous /\ verdict.severity # "low"

\* spawn(command, {shell: true}): the Execution Adapter is handed the command
spawn(st, cmd, pid, id, input, via) ==
  [st EXCEPT
     !.adapterCalls = Append(@, [pid |-> pid, id |-> id, command |-> cmd, via |-> via]),
     !.running = Append(@, [pid |-> pid, id |-> id, input |-> input, command |-> cmd])]

InitCLI ==
  /\ command = NULL
  /\ config \in OneShotConfigs
  /\ safety = noVerdict
  /\ args \in ArgLists /\ cliPc = "start" /\ exitCode = NoExit
  /\ IdleAdapter /\ IdleSession
  /\ configFile = unreadFile /\ IdleCalls

\* main: no query is an error; translate: no API key is an error
CliMain(hasApiKey) ==
  /\ cliPc = "start"
  /\ IF options.queryParts = <<>> \/ ~hasApiKey
     THEN cliPc' = "exited" /\ exitCode' = 1
     ELSE cliPc' = "translating" /\ exitCode' = exitCode
  /\ UNCHANGED <<classifyVars, args, adapterVars, slotVars, sessionVars, bookVars>>

\* translateToCommand returned cmd
CliTranslated(cmd) ==
  /\ cliPc = "translating"
  /\ command' = cmd
  /\ IF options.dryRun
     THEN /\ safety' = analyzeCommand(cmd, config)
          /\ cliPc' = "exited" /\ exitCode' = 0
          /\ UNCHANGED adapterVars
     ELSE IF options.execute
     THEN /\ safety' = analyzeCommand(cmd, config)
          /\ IF refuses(safety')
             THEN cliPc' = "exited" /\ exitCode' = 1 /\ UNCHANGED adapterVars
             ELSE LET st == spawn([adapterCalls |-> adapterCalls, running |-> running],
                                  cmd, 0, 0, "q", "execute")
                  IN  /\ cliPc' = "executing" /\ exitCode' = exitCode
                      /\ adapterCalls' = st.adapterCalls
                      /\ running' = st.running
     ELSE /\ safety' = safety
          /\ cliPc' = "exited" /\ exitCode' = 0
          /\ UNCHANGED adapterVars
  /\ UNCHANGED <<config, args, slotVars, sessionVars, bookVars>>

\* translateToCommand threw
CliTranslateFailed ==
  /\ cliPc = "translating"
  /\ cliPc' = "exited" /\ exitCode' = 1
  /\ UNCHANGED <<classifyVars, args, adapterVars, slotVars, sessionVars, bookVars>>

\* executeCommand: resolve({code: code ?? 0}) when the child closed with code
exitStatus(code) == IF code = NullCode THEN 0 ELSE code

\* executeCommand: the child closed with code, process.exit(result.code)
CliChildClosed(code) ==
  /\ cliPc = "executing"
  /\ running' = <<>>
  /\ cliPc' = "exited" /\ exitCode' = exitStatus(code)
  /\ UNCHANGED <<classifyVars, args, adapterCalls, slotVars, sessionVars, bookVars>>

\* executeCommand: the child could not be spawned, resolve({code: 1})
CliChildError ==
  /\ cliPc = "executing"
  /\ running' = <<>>
  /\ cliPc' = "exited" /\ exitCode' = 1
  /\ UNCHANGED <<classifyVars, args, adapterCalls, slotVars, sessionVars, bookVars>>

NextCLI ==
  \/ \E hasApiKey \in BOOLEAN : CliMain(hasApiKey)
  \/ \E cmd \in Commands : CliTranslated(cmd)
  \/ CliTranslateFailed
  \/ \E code \in ChildCodes : CliChildClosed(code)
  \/ CliChildError

SpecCLI == InitCLI /\ [][NextCLI]_vars

(***************************************************************************)
(* Spec: an interactive session, either src/src/cli.ts (ui = "cli") or the *)
(* chat TUI (ui = "chat").  A chat message id "msg-N" is the number N.     *)
(* Only assistant and result messages are kept in chatMessages.  A handler *)
(* is a function from the session's state before it to the state at its    *)
(* first suspension; st is that state as one record.                       *)
(***************************************************************************)
MaxProposals == 2      \* proposals started in one session

\* the configurations a session is started with
SessionConfigs ==
  [safetyLevel : SafetyLevels,
   blockedCommands : {<<"rm -rf">>},
   confirmedDangerousPatterns : {<<>>}]

\* what the user types, and what the translator answers
Inputs == {"rm -rf /", "cd /tmp", "do it", "!dry", "!RM -rf /"}
TranslatorOutputs == {"rm x", "sudo rm x"}
SessionChildCodes == {0, 1}
HOME == "/home"

directCommands ==
  { "ls", "pwd", "cd", "cat", "echo", "mkdir", "touch", "rm", "cp", "mv", "git",
    "npm", "bun", "node", "python", "pip", "brew", "apt", "docker", "kubectl" }

\* s.split(/\s+/)[0]
firstWord(s) ==
  LET ws == {i \in 1..Len(s) : CharAt(s, i) \in WhiteSpace}
  IN  IF ws = {} THEN s ELSE SubSeq(s, 1, MinOf(ws) - 1)

isDirectCommand(input) ==
  \/ toLowerCase(firstWord(input)) \in directCommands
  \/ startsWith(input, "./")
  \/ startsWith(input, "/")
  \/ startsWith(input, "~")

\* the path of a cd command: slice(3).trim(), one quote stripped at each end,
\* a leading ~ replaced by HOME
cdPath(cmd) ==
  LET p0 == trim(SubSeq(cmd, 4, Len(cmd)))
      p1 == IF Len(p0) > 0 /\ CharAt(p0, 1) \in {"\"", "'"}
            THEN SubSeq(p0, 2, Len(p0)) ELSE p0
      p2 == IF Len(p1) > 0 /\ CharAt(p1, Len(p1)) \in {"\"", "'"}
            THEN SubSeq(p1, 1, Len(p1) - 1) ELSE p1
  IN  IF startsWith(p2, "~") THEN HOME \o SubSeq(p2, 2, Len(p2)) ELSE p2

builtins == {"help", "model", "provider", "config", "history", ""}

\* The texts the input field can hold, and what handleInput and
\* handleSpecialCommand make of each: input = value.trim(), special = it starts
\* with "!", cmd = input.slice(1).toLowerCase().trim() and its first word,
\* direct = isDirectCommand(input).  Tabulated once.
Texts == Inputs \cup TranslatorOutputs \cup {""}
typed ==
  [value \in Texts |->
     LET input == trim(value)
         special == startsWith(input, "!")
         cmd == IF special THEN trim(toLowerCase(SubSeq(input, 2, Len(input)))) ELSE ""
     IN  [input |-> input, special |-> special, cmd |-> cmd,
          word |-> firstWord(cmd), direct |-> isDirectCommand(input)]]

\* every command a session of these inputs can classify or run
SessionCommands ==
  TranslatorOutputs \cup {typed[v].input : v \in Texts} \cup {typed[v].cmd : v \in Texts}
    \cup {""}

\* analyzeCommand on the session's commands and configurations, tabulated once
sessionVerdicts ==
  [c \in SessionCommands, cfg \in SessionConfigs |-> analyzeCommand(c, cfg)]

\* command.startsWith("cd ") and the path of the cd, tabulated once
cdCommand ==
  [c \in SessionCommands |-> [cd |-> startsWith(c, "cd "), path |-> cdPath(c)]]

\* the session's state as one record
cur ==
  [chatMessages |-> chatMessages, messageIdCounter |-> messageIdCounter,
   slot |-> [id |-> pendingMessageId, cmd |-> pendingCommand,
             awaiting |-> awaitingConfirmation, pid |-> pendingPid],
   discarded |-> discarded, adapterCalls |-> adapterCalls, running |-> running,
   history |-> history, currentCwd |-> currentCwd, dryRunMode |-> dryRunMode,
   translating |-> translating, proposed |-> proposed, inputValue |-> inputValue,
   clipboard |-> clipboard]

Install(st) ==
  /\ chatMessages' = st.chatMessages
  /\ messageIdCounter' = st.messageIdCounter
  /\ pendingMessageId' = st.slot.id
  /\ pendingCommand' = st.slot.cmd
  /\ awaitingConfirmation' = st.slot.awaiting
  /\ pendingPid' = st.slot.pid
  /\ discarded' = st.discarded
  /\ adapterCalls' = st.adapterCalls
  /\ running' = st.running
  /\ history' = st.history
  /\ currentCwd' = st.currentCwd
  /\ dryRunMode' = st.dryRunMode
  /\ translating' = st.translating
  /\ proposed' = st.proposed
  /\ inputValue' = st.inputValue
  /\ clipboard' = st.clipboard

\* bookkeeping: the proposal in the slot is about to leave it unexecuted
drop(st, how) ==
  IF st.slot.pid # 0
  THEN [st EXCEPT !.discarded = @ \cup {[pid |-> st.slot.pid, how |-> how]}]
  ELSE st

emptySlot == [id |-> 0, cmd |-> NULL, awaiting |-> FALSE, pid |-> 0]

\* a faulty clearCommandState that forgets to lower awaitingConfirmation
clearCommandStateKeepsFlag(st) == [st EXCEPT !.slot = [emptySlot EXCEPT !.awaiting = TRUE]]

clearCommandState(st) == [st EXCEPT !.slot = emptySlot]

\* the dangerous branch of processDirectCommand and translateAndProcess
setPending(st, id, cmd, pid) ==
  [drop(st, "replaced") EXCEPT
     !.slot = IF ui = "chat"
              THEN [id |-> id, cmd |-> NULL, awaiting |-> TRUE, pid |-> pid]
              ELSE [id |-> 0, cmd |-> cmd, awaiting |-> TRUE, pid |-> pid]]

addAssistantMessage(st, input, cmd, verdict, pid) ==
  [st EXCEPT
     !.messageIdCounter = @ + 1,
     !.chatMessages =
        Append(@, [id |-> st.messageIdCounter + 1, type |-> "assistant",
                   content |-> input, command |-> cmd, safety |-> verdict,
                   executed |-> FALSE, exitCode |-> NoExit, pid |-> pid])]

addResultMessage(st, code, pid) ==
  [st EXCEPT
     !.messageIdCounter = @ + 1,
     !.chatMessages =
        Append(@, [id |-> st.messageIdCounter + 1, type |-> "result",
                   content |-> "", command |-> NULL, safety |-> noVerdict,
                   executed |-> FALSE, exitCode |-> code, pid |-> pid])]

\* updateAssistantMessage(msgId, {executed: true})
updateAssistantMessage(st, msgId) ==
  [st EXCEPT
     !.chatMessages =
        [i \in 1..Len(@) |->
           IF @[i].id = msgId THEN [@[i] EXCEPT !.executed = TRUE] ELSE @[i]]]

\* chatMessages.find(m => m.id === id): the places holding that id
findMessage(msgs, id) == {i \in 1..Len(msgs) : msgs[i].id = id}

addToHistory(st, input, cmd) ==
  [st EXCEPT !.history = Append(@, [input |-> input, command |-> cmd])]

\* the dry-run branch is taken
dryRunBranch(st) == st.dryRunMode

\* a faulty executeAndShowResult without the special case for cd
executeAndShowResultSpawnsCd(st, input, cmd, msgId, pid, via, chdirOk) ==
  IF dryRunBranch(st)
  THEN clearCommandState(drop(updateAssistantMessage(addResultMessage(st, 0, pid), msgId),
                              "cleared"))
  ELSE spawn(st, cmd, pid, msgId, input, via)

\* Chat TUI: executeAndShowResult, up to its first suspension
executeAndShowResult(st, input, cmd, msgId, pid, via, chdirOk) ==
  IF memo.cd[cmd].cd
  THEN LET done == IF chdirOk
                   THEN updateAssistantMessage(
                          addToHistory(
                            addResultMessage([st EXCEPT !.currentCwd = memo.cd[cmd].path],
                                             0, pid),
                            input, cmd),
                          msgId)
                   ELSE addResultMessage(st, 1, pid)
       IN  clearCommandState(drop(done, "cleared"))
  ELSE IF dryRunBranch(st)
  THEN clearCommandState(drop(updateAssistantMessage(addResultMessage(st, 0, pid), msgId),
                              "cleared"))
  ELSE spawn(st, cmd, pid, msgId, input, via)

\* cli.ts: processCommand, up to its first suspension
processCommand(st, input, cmd, pid, via, chdirOk) ==
  IF memo.cd[cmd].cd
  THEN LET done == IF chdirOk
                   THEN addToHistory([st EXCEPT !.currentCwd = memo.cd[cmd].path],
                                     input, cmd)
                   ELSE st
       IN  clearCommandState(drop(done, "cleared"))
  ELSE IF dryRunBranch(st)
  THEN clearCommandState(drop(st, "cleared"))
  ELSE spawn(st, cmd, pid, 0, input, via)

\* Chat TUI: processDirectCommand
processDirectCommand(st, input, cmd, pid, chdirOk) ==
  LET verdict == memo.verdict[cmd]
      shown == addAssistantMessage(st, input, cmd, verdict, pid)
      id == shown.messageIdCounter
  IN  IF verdict.isDangerous
      THEN setPending(shown, id, cmd, pid)
      ELSE executeAndShowResult(shown, input, cmd, id, pid, "auto", chdirOk)

\* translateAndProcess after translateToCommand returned cmd; in the chat TUI
\* its statements are those of processDirectCommand
translateAndProcess(st, input, cmd, pid, chdirOk) ==
  IF ui = "chat"
  THEN processDirectCommand(st, input, cmd, pid, chdirOk)
  ELSE IF memo.verdict[cmd].isDangerous
       THEN setPending(st, 0, cmd, pid)
       ELSE processCommand(st, input, cmd, pid, "auto", chdirOk)

\* clearChat: the messages go, the pending state stays
clearChat(st) == [st EXCEPT !.chatMessages = <<>>]

\* handleSpecialCommand: cmd = input.slice(1).toLowerCase().trim(); anything
\* that is no built-in runs as a shell command
handleSpecialCommand(st, value, chdirOk) ==
  LET input == memo.typed[value].input
      cmd == memo.typed[value].cmd
      word == memo.typed[value].word
      pid == st.proposed + 1
      started == [st EXCEPT !.proposed = pid]
  IN  IF word = "dry" THEN [st EXCEPT !.dryRunMode = ~@]
      ELSE IF word = "clear" THEN (IF ui = "chat" THEN clearChat(st) ELSE st)
      ELSE IF word \in builtins THEN st
      ELSE IF ui = "chat"
           THEN processDirectCommand(started, input, cmd, pid, chdirOk)
           ELSE processCommand(started, input, cmd, pid, "auto", chdirOk)

\* handleInput, up to its first suspension
handleInput(st, value, chdirOk) ==
  LET input == memo.typed[value].input
      pid == st.proposed + 1
      started == [st EXCEPT !.inputValue = "", !.proposed = pid]
  IN  IF input = "" THEN st
      ELSE IF memo.typed[value].special
      THEN handleSpecialCommand([st EXCEPT !.inputValue = ""], value, chdirOk)
      ELSE IF memo.typed[value].direct
      THEN IF ui = "chat"
           THEN processDirectCommand(started, input, input, pid, chdirOk)
           ELSE processCommand(started, input, input, pid, "auto", chdirOk)
      ELSE [started EXCEPT !.translating = Append(@, [pid |-> pid, input |-> input])]

\* the guard of Cancel, Edit and Copy, and of Confirm
slotTaken(st) ==
  IF ui = "chat" THEN st.slot.awaiting /\ st.slot.id # 0
  ELSE st.slot.awaiting

\* the command the pending slot shows, NULL when there is none to be found
pendingText(st) ==
  IF ui = "chat"
  THEN LET found == findMessage(st.chatMessages, st.slot.id)
       IN  IF slotTaken(st) /\ found # {}
           THEN st.chatMessages[MinOf(found)].command ELSE NULL
  ELSE IF slotTaken(st) /\ st.slot.cmd \notin {NULL, ""} THEN st.slot.cmd ELSE NULL

\* a faulty Confirm that leaves the slot filled while the command runs
handleKeypressReturnKeepsSlot(st, chdirOk) ==
  IF pendingText(st) = NULL THEN st
  ELSE IF ui = "chat"
  THEN LET msg == st.chatMessages[MinOf(findMessage(st.chatMessages, st.slot.id))]
       IN  executeAndShowResult(st, msg.content, msg.command,
                                st.slot.id, msg.pid, "confirm", chdirOk)
  ELSE processCommand(st, "", st.slot.cmd, st.slot.pid, "confirm", chdirOk)

\* handleKeypress, key "return": Confirm
handleKeypressReturn(st, chdirOk) ==
  IF pendingText(st) = NULL THEN st
  ELSE IF ui = "chat"
  THEN LET msg == st.chatMessages[MinOf(findMessage(st.chatMessages, st.slot.id))]
       IN  executeAndShowResult(clearCommandState(st), msg.content, msg.command,
                                st.slot.id, msg.pid, "confirm", chdirOk)
  ELSE processCommand(clearCommandState(st), "", st.slot.cmd, st.slot.pid,
                      "confirm", chdirOk)

\* a faulty Cancel that reports the cancellation and leaves the slot as it is
handleKeypressCancelKeepsSlot(st) == drop(st, "cancel")

\* handleKeypress, key "escape" (and Ctrl+C in the chat TUI): Cancel
handleKeypressCancel(st) ==
  IF slotTaken(st) THEN clearCommandState(drop(st, "cancel")) ELSE st

\* handleKeypress, key "e": Edit
handleKeypressEdit(st) ==
  IF pendingText(st) = NULL THEN st
  ELSE [clearCommandState(drop(st, "edit")) EXCEPT !.inputValue = pendingText(st)]

\* a faulty Copy that also takes the command out of the slot
handleKeypressCopyClears(st) ==
  IF pendingText(st) = NULL THEN st
  ELSE [clearCommandState(st) EXCEPT !.clipboard = pendingText(st)]

\* handleKeypress, key "c" in the chat TUI: Copy
handleKeypressCopy(st) ==
  IF pendingText(st) = NULL THEN st
  ELSE [st EXCEPT !.clipboard = pendingText(st)]

\* The Enter key with value in the input field.  The keypress listener is
\* registered before the input field takes the focus, so handleKeypress runs
\* first and the field's ENTER event then delivers the value to handleInput.
enterKey(st, value, chdirOk) ==
  handleInput(handleKeypressReturn(st, chdirOk), value, chdirOk)

\* whether submitting this text starts a proposal
startsProposal(value) ==
  /\ memo.typed[value].input # ""
  /\ memo.typed[value].special => memo.typed[value].word \notin builtins \cup {"dry", "clear"}

Init ==
  /\ command = NULL /\ safety = noVerdict
  /\ config \in SessionConfigs
  /\ IdleOneShot /\ IdleAdapter
  /\ ui \in {"cli", "chat"}
  /\ dryRunMode = FALSE                   \* config.dryRunByDefault
  /\ inputValue = ""
  /\ chatMessages = <<>> /\ messageIdCounter = 0
  /\ pendingMessageId = 0 /\ pendingCommand = NULL /\ awaitingConfirmation = FALSE
  /\ translating = <<>> /\ history = <<>> /\ currentCwd = HOME /\ clipboard = ""
  /\ proposed = 0 /\ pendingPid = 0 /\ discarded = {}
  /\ memo = [typed |-> typed,
             verdict |-> [c \in SessionCommands |-> sessionVerdicts[c, config]],
             cd |-> cdCommand]
  /\ configFile = unreadFile /\ IdleCalls

untouched == <<command, safety, oneShotVars, config, ui, memo, configFile, lastIndex, firstCall>>

\* the user presses Enter on what the input field holds, or on what they typed
canSubmit(value) ==
  /\ IF inputValue = "" THEN value \in Inputs \cup {""} ELSE value = inputValue
  /\ startsProposal(value) => proposed < MaxProposals

KeyReturn(value, chdirOk) ==
  /\ ui \in {"cli", "chat"}
  /\ canSubmit(value)
  /\ \E st \in {enterKey(cur, value, chdirOk)} : Install(st)
  /\ UNCHANGED untouched

RemoveAt(q, i) == SubSeq(q, 1, i - 1) \o SubSeq(q, i + 1, Len(q))

\* translateAndProcess resumes: translateToCommand returned cmd
TranslateDone(i, cmd, chdirOk) ==
  /\ i \in 1..Len(translating)
  /\ \E st \in {translateAndProcess([cur EXCEPT !.translating = RemoveAt(@, i)],
                                     translating[i].input, cmd, translating[i].pid,
                                     chdirOk)} :
       Install(st)
  /\ UNCHANGED untouched

\* translateAndProcess resumes: translateToCommand threw
TranslateFailed(i) ==
  /\ i \in 1..Len(translating)
  /\ \E st \in {[cur EXCEPT !.translating = RemoveAt(@, i)]} : Install(st)
  /\ UNCHANGED untouched

\* executeAndShowResult / processCommand after the child closed with code
commandClosed(st, r, code) ==
  LET exit == IF code = NullCode THEN 0 ELSE code
      shown == IF ui = "chat"
               THEN updateAssistantMessage(
                      addToHistory(addResultMessage(st, exit, r.pid), r.input, r.command),
                      r.id)
               ELSE addToHistory(st, r.input, r.command)
  IN  clearCommandState(drop(shown, "cleared"))

\* executeAndShowResult / processCommand after spawn reported an error
commandFailed(st, r) ==
  clearCommandState(drop(IF ui = "chat" THEN addResultMessage(st, 1, r.pid) ELSE st,
                         "cleared"))

ExecClosed(j, code) ==
  /\ j \in 1..Len(running)
  /\ \E st \in {commandClosed([cur EXCEPT !.running = RemoveAt(@, j)], running[j], code)} :
       Install(st)
  /\ UNCHANGED untouched

ExecFailed(j) ==
  /\ j \in 1..Len(running)
  /\ \E st \in {commandFailed([cur EXCEPT !.running = RemoveAt(@, j)], running[j])} :
       Install(st)
  /\ UNCHANGED untouched

KeyEscape ==
  /\ ui \in {"cli", "chat"}
  /\ slotTaken(cur)
  /\ \E st \in {handleKeypressCancel(cur)} : Install(st)
  /\ UNCHANGED untouched

\* Ctrl+C cancels in the chat TUI (cli.ts exits the process)
KeyCtrlC ==
  /\ ui = "chat"
  /\ slotTaken(cur)
  /\ \E st \in {handleKeypressCancel(cur)} : Install(st)
  /\ UNCHANGED untouched

KeyE ==
  /\ ui \in {"cli", "chat"}
  /\ slotTaken(cur)
  /\ \E st \in {handleKeypressEdit(cur)} : Install(st)
  /\ UNCHANGED untouched

\* handleKeypress, Ctrl+X then "l" in the chat TUI: the Clear Chat command
ChordClearChat ==
  /\ ui = "chat"
  /\ \E st \in {clearChat(cur)} : Install(st)
  /\ UNCHANGED untouched

\* handleKeypress, key "c" in the chat TUI: Copy
KeyC ==
  /\ ui = "chat"
  /\ slotTaken(cur)
  /\ \E st \in {handleKeypressCopy(cur)} : Install(st)
  /\ UNCHANGED untouched

Next ==
  \/ \E value \in Texts, chdirOk \in BOOLEAN :
       KeyReturn(value, chdirOk)
  \/ \E i \in 1..MaxProposals, cmd \in TranslatorOutputs, chdirOk \in BOOLEAN :
       TranslateDone(i, cmd, chdirOk)
  \/ \E i \in 1..MaxProposals : TranslateFailed(i)
  \/ \E j \in 1..MaxProposals, code \in SessionChildCodes : ExecClosed(j, code)
  \/ \E j \in 1..MaxProposals : ExecFailed(j)
  \/ KeyEscape
  \/ KeyCtrlC
  \/ KeyE
  \/ KeyC
  \/ ChordClearChat

Spec == Init /\ [][Next]_vars

(***************************************************************************)
(* Properties of the classifier, under SpecClassify.                       *)
(***************************************************************************)
classified == safety # noVerdict
\* what the rule tables make of each drawn command, on its normalized text
anyMatch(rules, s) == \E i \in 1..Len(rules) : test(rules[i].re, s)
commandFacts ==
  [c \in Commands |->
     LET n == trim(toLowerCase(c))
     IN  [normalized |-> n,
          critical |-> anyMatch(CRITICAL_PATTERNS, n),
          high |-> anyMatch(HIGH_PATTERNS, n),
          medium |-> anyMatch(MEDIUM_PATTERNS, n),
          low |-> anyMatch(LOW_PATTERNS, n)]]
normalized == commandFacts[command].normalized

containsBlockedEntry ==
  \E i \in 1..Len(config.blockedCommands) :
     includes(normalized, toLowerCase(config.blockedCommands[i]))

containsConfirmedPattern ==
  \E i \in 1..Len(config.confirmedDangerousPatterns) :
     includes(normalized, toLowerCase(config.confirmedDangerousPatterns[i]))

matchesCriticalRule == commandFacts[command].critical

\* C1: a command whose trimmed, lowercased text contains an entry of
\* blockedCommands (compared without regard to case) is classified critical
\* and dangerous, under every safety level and whatever the confirmed
\* patterns are.
BlockedIsCriticalAndDangerous ==
  (classified /\ containsBlockedEntry)
    => (safety.severity = "critical" /\ safety.isDangerous)

\* a blocked command that no critical rule matches and a confirmed pattern
\* covers, classified under the relaxed level
BlockedBeatsOverrideReached ==
  /\ classified /\ containsBlockedEntry /\ containsConfirmedPattern
  /\ ~matchesCriticalRule
  /\ config.safetyLevel = "relaxed"
  /\ safety.severity = "critical" /\ safety.isDangerous

\* C2: a command that a critical-tier rule matches is classified dangerous
\* under every safety level, also when a confirmed pattern is a substring of
\* the command.
CriticalIsDangerous ==
  (classified /\ matchesCriticalRule) => safety.isDangerous

\* a critical command that contains a confirmed pattern and no blocked entry,
\* classified under the relaxed level
CriticalBeatsOverrideReached ==
  /\ classified /\ matchesCriticalRule /\ containsConfirmedPattern
  /\ ~containsBlockedEntry
  /\ config.safetyLevel = "relaxed"
  /\ safety.isDangerous

(***************************************************************************)
(* Properties of the one-shot command line, under SpecCLI.                 *)
(***************************************************************************)
\* -x / --execute given and -n / --dry-run not given
executeMode == options.execute /\ ~options.dryRun

\* C5: in execute mode a command whose verdict is dangerous with a severity
\* other than low is never handed to the Execution Adapter and the process
\* exits with a non-zero status; every other classified command is handed to
\* the Execution Adapter.
ExecuteModeRefusesOrRuns ==
  (executeMode /\ classified)
    => IF safety.isDangerous /\ safety.severity # "low"
       THEN adapterCalls = <<>> /\ cliPc = "exited" /\ exitCode \notin {0, NoExit}
       ELSE Len(adapterCalls) = 1 /\ adapterCalls[1].command = command

\* execute mode refused a dangerous command
ExecuteModeRefusalReached ==
  /\ executeMode /\ classified
  /\ safety.isDangerous /\ safety.severity # "low"
  /\ cliPc = "exited" /\ exitCode = 1 /\ adapterCalls = <<>>

(***************************************************************************)
(* Properties of the interactive session, under Spec.  A handler applied   *)
(* to cur gives the state the key leaves behind in the present state.      *)
(***************************************************************************)
\* whether the session's configuration blocks the command
sessionBlocked ==
  [c \in SessionCommands |->
     \E i \in 1..Len(config.blockedCommands) :
        includes(trim(toLowerCase(c)), toLowerCase(config.blockedCommands[i]))]

callsOf(calls, pid) == {k \in 1..Len(calls) : calls[k].pid = pid}
slotIsEmpty(st) == st.slot.id = 0 /\ st.slot.cmd = NULL /\ ~st.slot.awaiting

\* C3: on every input path of the session the command is classified first; a
\* command classified dangerous reaches the Execution Adapter only by a
\* Confirm issued while it is pending.
DangerousRunsOnlyOnConfirm ==
  \A k \in 1..Len(adapterCalls) :
     sessionVerdicts[adapterCalls[k].command, config].isDangerous
       => adapterCalls[k].via = "confirm"

\* C4: in the chat TUI a command containing an entry of blockedCommands is
\* never handed to the Execution Adapter, whatever keys were pressed.
BlockedNeverRuns ==
  ui = "chat" => \A k \in 1..Len(adapterCalls) : ~sessionBlocked[adapterCalls[k].command]

\* C6: whenever a command awaits confirmation (dry-run off), Enter hands that
\* command to the Execution Adapter and leaves the pending slot empty.
ConfirmRunsPending ==
  (slotTaken(cur) /\ ~dryRunMode)
    => \A chdirOk \in BOOLEAN :
         LET after == handleKeypressReturn(cur, chdirOk)
             n == Len(after.adapterCalls)
         IN  /\ slotIsEmpty(after)
             /\ n = Len(adapterCalls) + 1
             /\ after.adapterCalls[n].pid = pendingPid
             /\ after.adapterCalls[n].via = "confirm"

EditDraftsPending ==
  slotTaken(cur)
    => LET after == handleKeypressEdit(cur)
       IN  /\ slotIsEmpty(after)
           /\ after.inputValue \in SessionCommands \ {""}
           /\ pendingText(cur) # NULL => after.inputValue = pendingText(cur)
           /\ after.adapterCalls = adapterCalls /\ after.running = running

\* C9: Copy on a pending command changes nothing but the clipboard: the same
\* command stays pending, nothing is executed, and Copy pressed again has the
\* same effect.
CopyKeepsPending ==
  slotTaken(cur)
    => LET after == handleKeypressCopy(cur)
       IN  /\ [after EXCEPT !.clipboard = clipboard] = cur
           /\ slotTaken(after)
           /\ handleKeypressCopy(after) = after

\* the pending command was copied and is still pending
CopiedStillPendingReached ==
  /\ ui = "chat" /\ awaitingConfirmation /\ pendingPid # 0
  /\ pendingText(cur) # NULL /\ clipboard = pendingText(cur)
  /\ callsOf(adapterCalls, pendingPid) = {}

\* C10: when Enter submits a new proposal while a command is pending, the
\* command that was pending is not handed to the Execution Adapter.
SubmitWhilePendingDiscards ==
  \A value \in Texts, chdirOk \in BOOLEAN :
     (pendingText(cur) # NULL /\ canSubmit(value) /\ startsProposal(value))
       => callsOf(enterKey(cur, value, chdirOk).adapterCalls, pendingPid) = {}

(***************************************************************************)
(* The pending slot, under Spec.                                           *)
(***************************************************************************)
\* C11: in every reachable state of an interactive session the flag
\* awaitingConfirmation is set exactly when the pending slot is non-null
\* (pendingMessageId in the chat TUI, pendingCommand in cli.ts), and at most
\* one command awaits confirmation: one proposal is in the slot exactly when
\* the flag is set, and a pending id names at most one message.
OnePendingSlot ==
  /\ awaitingConfirmation <=>
       (IF ui = "chat" THEN pendingMessageId # 0 ELSE pendingCommand # NULL)
  /\ awaitingConfirmation <=> pendingPid # 0
  /\ Cardinality(findMessage(chatMessages, pendingMessageId)) <= 1
  /\ \A i, j \in 1..Len(chatMessages) :
        chatMessages[i].id = chatMessages[j].id => i = j

\* a second dangerous proposal took the slot from the first, which never ran
ReplacedPendingReached ==
  /\ [pid |-> 1, how |-> "replaced"] \in discarded
  /\ awaitingConfirmation /\ pendingPid = 2
  /\ callsOf(adapterCalls, 1) = {}

(***************************************************************************)
(* More properties of the classifier, under SpecClassify.                  *)
(***************************************************************************)
\* C12: at every safety level, when the normalized command contains an entry
\* of confirmedDangerousPatterns (compared without regard to case) and the
\* verdict's severity is not critical, the verdict is not dangerous.
ConfirmedClearsNonCritical ==
  (classified /\ containsConfirmedPattern /\ safety.severity # "critical")
    => ~safety.isDangerous

\* under strict a high command with matched rules was cleared by a confirmed
\* pattern
ConfirmedClearedHighReached ==
  /\ classified /\ containsConfirmedPattern /\ ~containsBlockedEntry
  /\ config.safetyLevel = "strict" /\ safety.severity = "high"
  /\ Len(safety.patterns) > 0 /\ ~safety.isDangerous

\* the flag analyzeCommand returns for the classified command at another level
dangerousAt(level) ==
  analyzeCommand(command, [config EXCEPT !.safetyLevel = level]).isDangerous

\* C13: for a fixed command, blockedCommands and confirmedDangerousPatterns,
\* dangerous under relaxed implies dangerous under moderate, and dangerous
\* under moderate implies dangerous under strict.
LevelMonotone ==
  classified =>
    /\ (config.safetyLevel = "relaxed" /\ safety.isDangerous) => dangerousAt("moderate")
    /\ (config.safetyLevel = "moderate" /\ safety.isDangerous) => dangerousAt("strict")

\* a command classified dangerous under moderate that relaxed lets through
ModerateStricterThanRelaxedReached ==
  /\ classified /\ config.safetyLevel = "moderate" /\ safety.isDangerous
  /\ ~dangerousAt("relaxed") /\ dangerousAt("strict")

matchesHighRule == commandFacts[command].high
matchesMediumRule == commandFacts[command].medium
matchesLowRule == commandFacts[command].low

\* C14: the severity of a verdict is the highest tier matched by the
\* normalized command: critical if a critical rule or a blocked entry
\* matches, otherwise high if a high rule matches, otherwise medium if a
\* medium rule matches, otherwise low.
SeverityIsHighestTier ==
  classified =>
    safety.severity =
      (IF containsBlockedEntry \/ matchesCriticalRule THEN "critical"
       ELSE IF matchesHighRule THEN "high"
       ELSE IF matchesMediumRule THEN "medium"
       ELSE "low")

\* a command matching a high and a medium rule, and nothing critical, is high
HighAndMediumIsHighReached ==
  /\ classified /\ ~containsBlockedEntry /\ ~matchesCriticalRule
  /\ matchesHighRule /\ matchesMediumRule /\ safety.severity = "high"

lowSources == {LOW_PATTERNS[i].source : i \in 1..Len(LOW_PATTERNS)}
reportsLowRule == \E k \in 1..Len(safety.patterns) : safety.patterns[k] \in lowSources

\* C15: the patterns of a verdict hold a low-tier rule only if no critical,
\* high or medium rule matched the command; when a higher-tier rule matched,
\* no low-tier rule is reported.
LowOnlyWhenAlone ==
  (classified /\ reportsLowRule)
    => ~(matchesCriticalRule \/ matchesHighRule \/ matchesMediumRule)

\* a command matching a medium and a low rule reports no low rule
LowSuppressedReached ==
  /\ classified /\ ~containsBlockedEntry
  /\ matchesMediumRule /\ matchesLowRule
  /\ Len(safety.patterns) > 0 /\ ~reportsLowRule

matchesNoRule ==
  ~(matchesCriticalRule \/ matchesHighRule \/ matchesMediumRule \/ matchesLowRule)

\* C16: a command that matches no rule of any tier and contains no blocked
\* entry is classified not dangerous, severity low, with no patterns, at
\* every safety level and for every confirmedDangerousPatterns.
NoMatchIsSafe ==
  (classified /\ matchesNoRule /\ ~containsBlockedEntry)
    => /\ ~safety.isDangerous
       /\ safety.severity = "low"
       /\ safety.patterns = <<>>
       /\ safety.reason = undefined

\* under strict, with a confirmed pattern configured, a command matching
\* nothing was classified
NoMatchUnderStrictReached ==
  /\ classified /\ matchesNoRule /\ ~containsBlockedEntry
  /\ config.safetyLevel = "strict" /\ config.blockedCommands # <<>>
  /\ config.confirmedDangerousPatterns # <<>>
  /\ safety.severity = "low" /\ safety.patterns = <<>>

\* C17: when no blocked entry and no confirmed pattern matches, the flag
\* depends on the safety level alone: under strict it is set iff some rule
\* of any tier, low included, matched; under moderate iff the severity is
\* critical or high; under relaxed iff the severity is critical.
LevelDecidesFlag ==
  (classified /\ ~containsBlockedEntry /\ ~containsConfirmedPattern)
    => safety.isDangerous =
         (IF config.safetyLevel = "strict" THEN ~matchesNoRule
          ELSE IF config.safetyLevel = "moderate"
               THEN safety.severity \in {"critical", "high"}
               ELSE safety.severity = "critical")

\* under strict a command matching only a low rule is dangerous
StrictFlagsLowReached ==
  /\ classified /\ ~containsBlockedEntry /\ ~containsConfirmedPattern
  /\ config.safetyLevel = "strict" /\ matchesLowRule /\ reportsLowRule
  /\ safety.severity = "low" /\ safety.isDangerous

(***************************************************************************)
(* Dry-run and directory changes in the session, under Spec.               *)
(***************************************************************************)
\* the ids of the messages marked executed
executedIds(msgs) == {msgs[i].id : i \in {k \in 1..Len(msgs) : msgs[k].executed}}

\* what processing a command must leave alone while dry-run is on
sameEffects(after) ==
  /\ after.adapterCalls = adapterCalls
  /\ after.currentCwd = currentCwd
  /\ after.history = history
  /\ executedIds(after.chatMessages) \subseteq executedIds(chatMessages)

\* C18: while dry-run mode is on, processing a command (typed and submitted,
\* confirmed with Enter, or returned by the translator; a cd included) hands
\* nothing to the Execution Adapter, leaves the working directory and the
\* history as they are, and marks no command executed.
DryRunChangesNothing ==
  dryRunMode =>
    /\ \A value \in Texts, chdirOk \in BOOLEAN :
          canSubmit(value) => sameEffects(enterKey(cur, value, chdirOk))
    /\ \A i \in 1..Len(translating), cmd \in TranslatorOutputs, chdirOk \in BOOLEAN :
          sameEffects(translateAndProcess([cur EXCEPT !.translating = RemoveAt(@, i)],
                                          translating[i].input, cmd,
                                          translating[i].pid, chdirOk))

\* the typed texts that are directory changes
cdInputs == {v \in Inputs : typed[v].direct /\ cdCommand[typed[v].input].cd}

\* the exit code of the result message a handler added last, NoExit if it
\* added none (chat TUI)
lastResult(after) ==
  LET n == Len(after.chatMessages)
  IN  IF n > 0 /\ after.messageIdCounter > messageIdCounter
         /\ after.chatMessages[n].type = "result"
      THEN after.chatMessages[n].exitCode ELSE NoExit

\* the outcome of a cd as the session reports it: the chat TUI adds a result
\* message with the exit code; cli.ts prints the success line and writes the
\* history entry in one block, or prints the error
cdReport(after) ==
  IF ui = "chat"
  THEN (IF lastResult(after) = 0 THEN "success"
        ELSE IF lastResult(after) = NoExit THEN "none" ELSE "error")
  ELSE (IF Len(after.history) = Len(history) + 1 THEN "success" ELSE "error")

\* C19 as stated: a cd that is run never reaches the Execution Adapter, the
\* working directory becomes its path, and success is reported, always.
CdAlwaysSucceeds ==
  \A value \in cdInputs, chdirOk \in BOOLEAN :
     (pendingText(cur) = NULL /\ canSubmit(value))
       => LET after == enterKey(cur, value, chdirOk)
          IN  /\ after.adapterCalls = adapterCalls /\ after.running = running
              /\ after.currentCwd = cdCommand[typed[value].input].path
              /\ cdReport(after) = "success"

\* C19 amended: a cd that is run never reaches the Execution Adapter; when
\* the directory change succeeds the working directory becomes its path and
\* success is reported, and when it fails the working directory stays and
\* an error is reported.
CdSucceedsOrReportsError ==
  \A value \in cdInputs, chdirOk \in BOOLEAN :
     (pendingText(cur) = NULL /\ canSubmit(value))
       => LET after == enterKey(cur, value, chdirOk)
          IN  /\ after.adapterCalls = adapterCalls /\ after.running = running
              /\ IF chdirOk
                 THEN /\ after.currentCwd = cdCommand[typed[value].input].path
                      /\ cdReport(after) = "success"
                 ELSE /\ after.currentCwd = currentCwd
                      /\ after.history = history
                      /\ cdReport(after) = "error"

\* a cd failed in the chat TUI: its result message carries exit code 1, the
\* directory is the old one and nothing was spawned for it
CdFailedReached ==
  /\ ui = "chat" /\ currentCwd = HOME
  /\ \E i, j \in 1..Len(chatMessages) :
        /\ chatMessages[i].type = "assistant" /\ cdCommand[chatMessages[i].command].cd
        /\ chatMessages[j].type = "result" /\ chatMessages[j].pid = chatMessages[i].pid
        /\ chatMessages[j].exitCode = 1
        /\ callsOf(adapterCalls, chatMessages[i].pid) = {}

(***************************************************************************)
(* Preview mode of the one-shot command line, under SpecCLI.               *)
(***************************************************************************)
previewRequested == \E i \in 1..Len(args) : args[i] \in {"-n", "--dry-run"}

\* C20: in preview mode (-n / --dry-run) nothing is handed to the Execution
\* Adapter, and once the command is translated and classified the process
\* has exited with status 0, whatever the verdict.
PreviewNeverRuns ==
  previewRequested =>
    /\ adapterCalls = <<>> /\ running = <<>>
    /\ classified => (cliPc = "exited" /\ exitCode = 0)
    /\ (cliPc = "exited" /\ command # NULL) => (classified /\ exitCode = 0)

\* -x and -n together, a critical command: previewed, not run, exit 0
PreviewOfCriticalReached ==
  /\ previewRequested /\ options.execute
  /\ classified /\ safety.isDangerous /\ safety.severity = "critical"
  /\ cliPc = "exited" /\ exitCode = 0 /\ adapterCalls = <<>>

(***************************************************************************)
(* Exit status of the one-shot command line, under SpecCLI.                *)
(***************************************************************************)
\* C21: in execute mode the exit status is 1 when the command was refused,
\* and when the command was run it is 0 if the child succeeded and exactly 1
\* if the child failed (closed with a non-zero code or was killed).
ExecuteExitIsZeroOrOne ==
  /\ (executeMode /\ classified /\ cliPc = "exited" /\ adapterCalls = <<>>)
       => exitCode = 1
  /\ cliPc = "executing"
       => \A code \in ChildCodes : exitStatus(code) = (IF code = 0 THEN 0 ELSE 1)
  /\ (executeMode /\ cliPc = "exited" /\ adapterCalls # <<>>) => exitCode \in {0, 1}

(***************************************************************************)
(* Configuration defaults, under SpecLoad.                                 *)
(***************************************************************************)
\* the defaults the specification documents
documentedDefaults ==
  [safetyLevel |-> "moderate", blockedCommands |-> <<>>,
   confirmedDangerousPatterns |-> <<>>]

\* the Config a file stands for when every missing or invalid field takes its
\* documented default
intendedConfig(file) ==
  IF file.state # "parsed" THEN documentedDefaults
  ELSE [f \in ConfigFields |->
          IF f \in file.present /\ (f = "safetyLevel" => file[f] \in SafetyLevels)
          THEN file[f] ELSE documentedDefaults[f]]

\* C22: with a Config file that is missing, does not parse, or lacks a valid
\* safetyLevel or a list field, classification gives the verdict it gives
\* under the documented defaults for what is missing or invalid: moderate,
\* empty blockedCommands, empty confirmedDangerousPatterns.
BadConfigMeansDefaults ==
  (classified /\ configFile.state # "unread")
    => safety = analyzeCommand(command, intendedConfig(configFile))

(***************************************************************************)
(* The recursive chmod scenario, under SpecClassify.                       *)
(***************************************************************************)
\* C23: the command "chmod -R 777 /", with "chmod -R 777" among the
\* confirmedDangerousPatterns, is classified critical and dangerous whatever
\* the blockedCommands, the empty list included.
RecursiveChmodIsCritical ==
  (/\ classified
   /\ command = "chmod -R 777 /"
   /\ \E i \in 1..Len(config.confirmedDangerousPatterns) :
         config.confirmedDangerousPatterns[i] = "chmod -R 777")
    => (safety.severity = "critical" /\ safety.isDangerous)

(***************************************************************************)
(* C24: analyzeCommand is pure and deterministic.  However many calls were *)
(* made before, a call with the same command and the same Config returns   *)
(* the verdict the first such call returned, which is the verdict of the   *)
(* function of command and Config alone; no call leaves state behind in    *)
(* the rule objects, changes the Config, or touches the session (pending   *)
(* slot, dry-run flag, history).                                           *)
(***************************************************************************)
AnalyzeIsPure ==
  /\ lastIndex = {}
  /\ \A c \in CallCommands :
       firstCall[c] # notCalled => firstCall[c].config = config
  /\ command # NULL =>
       /\ firstCall[command] # notCalled
       /\ safety = firstCall[command].verdict
       /\ safety = analyzeCommand(command, config)
  /\ pendingCommand = NULL /\ pendingMessageId = 0 /\ awaitingConfirmation = FALSE
  /\ dryRunMode = FALSE /\ history = <<>> /\ chatMessages = <<>>

\* a dangerous command classified, then another command, then the first again
RepeatedCallReached ==
  /\ command # NULL
  /\ firstCall[command].repeated
  /\ safety.isDangerous
  /\ Len(safety.patterns) > 0
  /\ \E c \in CallCommands \ {command} : firstCall[c] # notCalled

(***************************************************************************)
(* C25: no retry and no repeated execution.  Every proposal is handed to   *)
(* the Execution Adapter at most once, whether it was auto-approved or     *)
(* confirmed and whatever became of its child; and a further Enter on an   *)
(* empty input field adds no call for a proposal that has been handed over *)
(* already.                                                                *)
(***************************************************************************)
ExecutedAtMostOnce ==
  /\ \A pid \in 1..proposed : Cardinality(callsOf(adapterCalls, pid)) <= 1
  /\ \A chdirOk \in BOOLEAN :
       \A pid \in 1..proposed :
          callsOf(adapterCalls, pid) # {}
            => callsOf(enterKey(cur, "", chdirOk).adapterCalls, pid)
                 = callsOf(adapterCalls, pid)

\* a confirmed command ran once and failed, and the session went on to a
\* second proposal without running the first again
FailedConfirmNotRetriedReached ==
  /\ ui = "chat"
  /\ proposed = 2
  /\ running = <<>>
  /\ \E k \in 1..Len(adapterCalls) :
       /\ adapterCalls[k].via = "confirm"
       /\ adapterCalls[k].pid = 1
       /\ \E i \in 1..Len(chatMessages) :
            /\ chatMessages[i].type = "result"
            /\ chatMessages[i].pid = 1
            /\ chatMessages[i].exitCode = 1
  /\ Cardinality(callsOf(adapterCalls, 1)) = 1

\* the identifiers of each tier, and the medium rules each drawn command matches
criticalSources == {CRITICAL_PATTERNS[i].source : i \in 1..Len(CRITICAL_PATTERNS)}
highSources == {HIGH_PATTERNS[i].source : i \in 1..Len(HIGH_PATTERNS)}
mediumMatches ==
  [c \in Commands |->
     {MEDIUM_PATTERNS[i].source :
        i \in {k \in 1..Len(MEDIUM_PATTERNS) :
                 test(MEDIUM_PATTERNS[k].re, trim(toLowerCase(c)))}}]
reported == {safety.patterns[k] : k \in 1..Len(safety.patterns)}

(***************************************************************************)
(* C26: the high tier is evaluated only when no critical rule matched: the *)
(* patterns of a verdict never hold both a critical and a high identifier, *)
(* and hold no high identifier when a critical rule matched.  The medium   *)
(* tier is evaluated whatever the critical and high tiers found: every     *)
(* medium rule that matches the command is among the patterns.  (A command *)
(* containing a blocked entry is answered before any tier is evaluated.)   *)
(***************************************************************************)
HighSkippedMediumKept ==
  classified =>
    /\ ~(reported \cap criticalSources # {} /\ reported \cap highSources # {})
    /\ ~containsBlockedEntry =>
         /\ matchesCriticalRule => reported \cap highSources = {}
         /\ ~matchesCriticalRule /\ matchesHighRule => reported \cap highSources # {}
         /\ mediumMatches[command] \subseteq reported

\* a command matching a critical, a high and a medium rule: the critical and
\* the medium identifiers are reported, the high one is not
CriticalWithMediumReached ==
  /\ classified /\ ~containsBlockedEntry
  /\ matchesCriticalRule /\ matchesHighRule /\ matchesMediumRule
  /\ reported \cap criticalSources # {}
  /\ reported \cap highSources = {}
  /\ mediumMatches[command] # {} /\ mediumMatches[command] \subseteq reported

\* the command a submitted text proposes: what follows the "!" of a special
\* input, the input itself when it is a direct command
proposedText(value) ==
  IF typed[value].special
  THEN trim(SubSeq(typed[value].input, 2, Len(typed[value].input)))
  ELSE typed[value].input
\* the commands of the calls and of the assistant messages made for proposal pid
commandsFor(st, pid) ==
  {st.adapterCalls[k].command : k \in callsOf(st.adapterCalls, pid)}
    \cup {st.chatMessages[i].command :
            i \in {k \in 1..Len(st.chatMessages) :
                     st.chatMessages[k].type = "assistant" /\ st.chatMessages[k].pid = pid}}

(***************************************************************************)
(* C27: lower-casing and trimming are for matching only.  Whatever path a  *)
(* command takes to the Execution Adapter, the text shown, classified and  *)
(* run is character for character the text that was proposed: the text     *)
(* typed after "!" or typed as a direct command, the translator's answer,  *)
(* and, on Confirm, the pending command.                                   *)
(***************************************************************************)
RunsTheProposedText ==
  /\ \A value \in Inputs, chdirOk \in BOOLEAN :
       (canSubmit(value) /\ startsProposal(value)
          /\ (typed[value].special \/ typed[value].direct))
         => commandsFor(enterKey(cur, value, chdirOk), proposed + 1)
              \subseteq {proposedText(value)}
  /\ \A i \in 1..Len(translating), cmd \in TranslatorOutputs, chdirOk \in BOOLEAN :
       commandsFor(translateAndProcess([cur EXCEPT !.translating = RemoveAt(@, i)],
                                       translating[i].input, cmd, translating[i].pid,
                                       chdirOk),
                   translating[i].pid) \subseteq {cmd}
  /\ \A chdirOk \in BOOLEAN :
       pendingText(cur) # NULL
         => commandsFor(handleKeypressReturn(cur, chdirOk), pendingPid)
              \subseteq {pendingText(cur)}

(***************************************************************************)
(* C28: in the chat TUI, whenever a confirmation is awaited the pending id *)
(* names an assistant message that is present in chatMessages, was judged  *)
(* dangerous and has not been executed.                                    *)
(***************************************************************************)
PendingNamesLiveMessage ==
  (ui = "chat" /\ awaitingConfirmation)
    => \E i \in 1..Len(chatMessages) :
         /\ chatMessages[i].id = pendingMessageId
         /\ chatMessages[i].type = "assistant"
         /\ chatMessages[i].safety.isDangerous
         /\ ~chatMessages[i].executed

(***************************************************************************)
(* C29: the end of the execution of another command leaves a command that  *)
(* awaits confirmation where it is.  Whenever a child closes or fails to   *)
(* start while the slot holds a different proposal, the slot is the same   *)
(* afterwards.                                                             *)
(***************************************************************************)
CompletionSparesPending ==
  \A j \in 1..Len(running) :
     (slotTaken(cur) /\ pendingPid # 0 /\ running[j].pid # pendingPid)
       => /\ \A code \in SessionChildCodes :
               commandClosed([cur EXCEPT !.running = RemoveAt(@, j)], running[j], code).slot
                 = cur.slot
          /\ commandFailed([cur EXCEPT !.running = RemoveAt(@, j)], running[j]).slot
               = cur.slot

executeRequested == \E i \in 1..Len(args) : args[i] \in {"-x", "--execute"}

(***************************************************************************)
(* C30: the one-shot command line hands a command to the Execution Adapter *)
(* only when -x/--execute is among the arguments and -n/--dry-run is not.  *)
(* With both flags, in either order, nothing is executed; with neither,    *)
(* the translated command is printed, nothing is executed and the run ends *)
(* with status 0.                                                          *)
(***************************************************************************)
AdapterNeedsExecuteFlagAlone ==
  /\ adapterCalls # <<>> => (executeRequested /\ ~previewRequested)
  /\ (~executeRequested /\ ~previewRequested /\ command # NULL)
       => (cliPc = "exited" /\ exitCode = 0 /\ running = <<>>)

\* -n before and -x after the query, a harmless command: previewed, not run
BothFlagsPreviewedReached ==
  /\ args = <<"-n", "q", "-x">>
  /\ cliPc = "exited" /\ exitCode = 0
  /\ command = "ls -la" /\ classified /\ ~safety.isDangerous
  /\ adapterCalls = <<>>

====
